---------------------------- MODULE Spec2Model ----------------------------
(***************************************************************************)
(* A model of card-engine.js (CardVisualEngine): the Token actor, the      *)
(* TokenPool free list, the layout strategies, Zone and the choreography   *)
(* operations of the engine (transferCard / drawCard / discardCard) with   *)
(* their pending setTimeout callbacks.                                     *)
(*                                                                         *)
(* Lengths are fixed-point numbers: one unit is 1/1000 px, so that the     *)
(* divisions of the row layout and of the coordinate translator stay in    *)
(* the integers.  Angles are in 1/1000 degree.                             *)
(***************************************************************************)
EXTENDS Integers, Sequences, FiniteSets, TLC

\* ------------------------------------------------------------------ bounds
\* Tokens the pool may create (TokenPool._createTokenElement is unbounded).
MaxTokens == 2
\* Choreography calls whose completion may be outstanding at the same time.
MaxCalls == 2
\* Items the zones hold together, beyond which a caller adds no more.
MaxItems == 3
\* Most items a layout strategy is asked to place on its own.
MaxCount == 4
\* Zones a caller creates on one engine when only zones are created.
MaxZones == 3

\* ------------------------------------------------------- program constants
\* config.cardWidth / config.cardHeight, in px (the usage example's values).
CardWidth == 80
CardHeight == 112
\* CenterRowStrategy.update: const gap = 10
RowGap == 10
\* PileStrategy's default maxAngle, in degrees
MaxAngle == 15
\* GridStrategy's default gap, [10, 10]
GridGapX == 10
GridGapY == 10

Px(n) == n * 1000

cw == Px(CardWidth)
ch == Px(CardHeight)

\* ---------------------------------------------------------------- universe
Range(s) == {s[i] : i \in 1..Len(s)}
Tokens == 1..MaxTokens
Slots == 1..MaxCalls
Zones == 1..3   \* one zone per entry of ZoneKind
\* null / undefined: no token, no callback, no anchor
None == 0
Types == {"A", "B"}

\* The zones of the fixture and the strategy createZone gave each.
ZoneKind == <<"row", "pile", "flow">>

\* Elements a caller may name as an anchor: a zone's element or the deck.
Deck == Len(ZoneKind) + 1
Anchors == Zones \cup {Deck}
StageEl == Deck + 1
\* parentElement of an element that was never appended
Detached == StageEl + 1

\* -------------------------------------------------------------- geometry
\* What the DOM reports: the stage is drawn at (20, 10) on the screen and
\* is scaled by 2 (getBoundingClientRect().width = 2 * offsetWidth); the
\* other elements are given in the stage's own layout coordinates.
StageGeom == [left |-> Px(20), top |-> Px(10), offsetWidth |-> Px(600), scale |-> 2]

LocalBox(el) ==
    CASE el = 1 -> [left |-> Px(100), top |-> Px(300), width |-> Px(200), height |-> Px(120)]
      [] el = 2 -> [left |-> Px(400), top |-> Px(40), width |-> Px(100), height |-> Px(130)]
      [] el = 3 -> [left |-> Px(20), top |-> Px(40), width |-> Px(300), height |-> Px(200)]
      [] OTHER -> [left |-> Px(500), top |-> Px(300), width |-> Px(80), height |-> Px(112)]

\* element.getBoundingClientRect(): screen coordinates
ScreenRect(box) ==
    [left |-> StageGeom.left + StageGeom.scale * box.left,
     top |-> StageGeom.top + StageGeom.scale * box.top,
     width |-> StageGeom.scale * box.width,
     height |-> StageGeom.scale * box.height]

getBoundingClientRect(el) ==
    IF el = StageEl
    THEN [left |-> StageGeom.left, top |-> StageGeom.top,
          width |-> StageGeom.offsetWidth * StageGeom.scale]
    ELSE ScreenRect(LocalBox(el))

\* element.offsetWidth: the unscaled layout width
offsetWidth(el) == IF el = StageEl THEN StageGeom.offsetWidth ELSE LocalBox(el).width

\* StageHelper.getRelativePos: the target's centre in stage coordinates.
\* scale = stageRect.width / stageEl.offsetWidth is kept in hundredths.
\* the return value, given the two rectangles and the scale
RelativeCentre(stageRect, targetRect, scale) ==
    [x |-> ((targetRect.left - stageRect.left + targetRect.width \div 2) * 100)
              \div scale,
     y |-> ((targetRect.top - stageRect.top + targetRect.height \div 2) * 100)
              \div scale]

\* const scale = stageRect.width / stageEl.offsetWidth
ScaleOf(stageRect, stageWidth) == (stageRect.width * 100) \div stageWidth

RelativePosIn(stageRect, targetRect, stageWidth) ==
    RelativeCentre(stageRect, targetRect, ScaleOf(stageRect, stageWidth))

getRelativePos(targetEl, stageEl) ==
    RelativePosIn(getBoundingClientRect(stageEl), getBoundingClientRect(targetEl),
                  offsetWidth(stageEl))

\* ------------------------------------------------------------------ Token
\* new Token(el, ...) on a fresh element: className 'card-token', no inline
\* style; parent is the stage when _createTokenElement appended it.
NewToken(parent) ==
    [x |-> 0, y |-> 0, rot |-> 0, type |-> "null", flipped |-> FALSE, flow |-> FALSE,
     display |-> "", cls |-> {}, parent |-> parent, z |-> -1, tf |-> <<>>]

TeleportClasses == {"teleport-out", "teleport-in", "teleport-in-prepare"}

\* Token._applyTransform
applyTransform(t) ==
    LET flipRot == IF t.flipped THEN 180 ELSE 0
    IN IF t.flow
       THEN [t EXCEPT !.tf = <<"rotateY", flipRot>>]
       ELSE [t EXCEPT !.tf = <<"translate3d", t.x, t.y, t.rot, flipRot>>]

\* Token.setType (the render callback only paints the face)
setType(t, cardType) == [t EXCEPT !.type = cardType]

\* Token.setFlipped
setFlipped(t, flipped) == applyTransform([t EXCEPT !.flipped = flipped])

\* Mutation of Token.setFlowMode: the fields and the class are updated, the
\* transform is not written again.
setFlowModeStale(t, enabled) ==
    IF enabled
    THEN [t EXCEPT !.flow = TRUE, !.cls = @ \cup {"flow-mode"},
                   !.x = 0, !.y = 0, !.rot = 0]
    ELSE [t EXCEPT !.flow = FALSE, !.cls = @ \ {"flow-mode"}]

\* Token.setFlowMode
setFlowMode(t, enabled) ==
    applyTransform(
        IF enabled
        THEN [t EXCEPT !.flow = TRUE, !.cls = @ \cup {"flow-mode"},
                       !.x = 0, !.y = 0, !.rot = 0]
        ELSE [t EXCEPT !.flow = FALSE, !.cls = @ \ {"flow-mode"}])

\* Mutation of Token.moveTo: no early return in flow mode.
moveToAlways(t, x, y, rotation) ==
    applyTransform([t EXCEPT !.x = x, !.y = y, !.rot = rotation])

\* Token.moveTo
moveTo(t, x, y, rotation) ==
    IF t.flow THEN t
    ELSE applyTransform([t EXCEPT !.x = x, !.y = y, !.rot = rotation])

\* Token.jumpTo: the transition is switched off and on again around moveTo
jumpTo(t, x, y) == IF t.flow THEN t ELSE moveTo(t, x, y, 0)

\* Token.moveToAnchor, once the anchor's centre is known
moveToCenter(t, center, rotation) ==
    moveTo(t, center.x - cw \div 2, center.y - ch \div 2, rotation)

\* Token.moveToAnchor
moveToAnchor(t, targetEl, rotation) ==
    IF t.flow THEN t
    ELSE moveToCenter(t, getRelativePos(targetEl, StageEl), rotation)

\* Token.jumpToAnchor, once the anchor's centre is known
jumpToCenter(t, center) == jumpTo(t, center.x - cw \div 2, center.y - ch \div 2)

\* Token.jumpToAnchor
jumpToAnchor(t, targetEl) ==
    IF t.flow THEN t
    ELSE jumpToCenter(t, getRelativePos(targetEl, StageEl))

\* Token.teleportOut: the class it adds (its timer is scheduled by the caller)
teleportOut(t) == [t EXCEPT !.cls = @ \cup {"teleport-out"}]

\* Token.teleportIn: prepare, reflow, then teleport-in
teleportIn(t) ==
    [t EXCEPT !.cls = ((@ \cup {"teleport-in-prepare"}) \ {"teleport-in-prepare"})
                          \cup {"teleport-in"}]

\* Mutation of Token.teleportIn: the timer's callback leaves the
\* teleport-in class on the element.
teleportInKeep(t) == t

\* the body of teleportIn's timer
teleportInDone(t) == [t EXCEPT !.cls = @ \ {"teleport-in"}]

\* Token.resetTeleportState
resetTeleportState(t) == [t EXCEPT !.cls = @ \ TeleportClasses]

\* -------------------------------------------------------------- the state
VARIABLES
    tok,      \* token id -> the Token's fields and its element's style
    created,  \* tokens 1..created exist (elements ever created)
    pool,     \* TokenPool._pool: the free list, a stack of token ids
    items,    \* zone -> Zone._items
    timers,   \* pending setTimeout callbacks
    calls,    \* slot -> the completion record of a choreography call
    last      \* the operation that produced this state, with its results

vars == <<tok, created, pool, items, timers, calls, last>>

\* The mutable part of the program, passed through the operations.
World == [tok |-> tok, created |-> created, pool |-> pool, items |-> items,
          timers |-> timers, calls |-> calls, ret |-> None, cb |-> None,
          cbArg |-> None, cbOp |-> "none", cbOrig |-> None, cbCount |-> 0,
          cbPool |-> <<>>, cbCls |-> {},
          cbWas |-> [type |-> "null", flipped |-> FALSE, flip |-> FALSE]]

isFlowZone(z) == ZoneKind[z] = "flow"


\* --------------------------------------------------------------- TokenPool
\* History of the pending timers: the pool hands token out, which the
\* timers set on it before do not notice.
handedOut(pending, token) ==
    {[tm EXCEPT !.reused = @ \/ tm.tok = token] : tm \in pending}

\* TokenPool.spawn: what is done to a token taken from the free list
revive(t) == resetTeleportState(setFlowMode([t EXCEPT !.display = "block"], FALSE))

\* TokenPool.spawn: the part common to a reused and a new token
dress(t, cardType, anchorEl, initialFlipped) ==
    IF anchorEl # None
    THEN jumpToAnchor(setFlipped(setType(t, cardType), initialFlipped), anchorEl)
    ELSE setFlipped(setType(t, cardType), initialFlipped)

\* Mutation of TokenPool.spawn: shift() instead of pop(), the oldest free
\* token is reused.
spawnOldest(w, cardType, anchorEl, initialFlipped) ==
    LET reuse == Len(w.pool) > 0
        token == IF reuse THEN w.pool[1] ELSE w.created + 1
    IN [w EXCEPT !.pool = IF reuse THEN Tail(@) ELSE @,
                 !.created = IF reuse THEN @ ELSE @ + 1,
                 !.tok[token] = dress(IF reuse THEN revive(@) ELSE NewToken(StageEl),
                                      cardType, anchorEl, initialFlipped),
                 !.timers = handedOut(@, token),
                 !.ret = token]

\* TokenPool.spawn
spawn(w, cardType, anchorEl, initialFlipped) ==
    LET reuse == Len(w.pool) > 0
        token == IF reuse THEN w.pool[Len(w.pool)] ELSE w.created + 1
    IN [w EXCEPT !.pool = IF reuse THEN SubSeq(@, 1, Len(@) - 1) ELSE @,
                 !.created = IF reuse THEN @ ELSE @ + 1,
                 !.tok[token] = dress(IF reuse THEN revive(@) ELSE NewToken(StageEl),
                                      cardType, anchorEl, initialFlipped),
                 !.timers = handedOut(@, token),
                 !.ret = token]

\* TokenPool.spawnIntoContainer: what is done to a token taken from the
\* free list
reviveInFlow(t) == resetTeleportState([t EXCEPT !.display = "block"])

\* TokenPool.spawnIntoContainer: the part common to a reused and a new token
dressInContainer(t, cardType, containerEl, initialFlipped) ==
    setFlipped(setType(setFlowMode([t EXCEPT !.parent = containerEl], TRUE), cardType),
               initialFlipped)

\* TokenPool.spawnIntoContainer
spawnIntoContainer(w, cardType, containerEl, initialFlipped) ==
    LET reuse == Len(w.pool) > 0
        token == IF reuse THEN w.pool[Len(w.pool)] ELSE w.created + 1
    IN [w EXCEPT !.pool = IF reuse THEN SubSeq(@, 1, Len(@) - 1) ELSE @,
                 !.created = IF reuse THEN @ ELSE @ + 1,
                 !.tok[token] = dressInContainer(
                                    IF reuse THEN reviveInFlow(@) ELSE NewToken(Detached),
                                    cardType, containerEl, initialFlipped),
                 !.timers = handedOut(@, token),
                 !.ret = token]

\* TokenPool.despawn: if (token.el.parentElement !== this.stage) appendChild
toStage(t) == IF t.parent # StageEl THEN [t EXCEPT !.parent = StageEl] ELSE t

\* Mutation of TokenPool.despawn: the token is hidden but not pushed onto
\* the free list.
despawnHidden(w, token) ==
    [w EXCEPT !.tok[token] =
                  toStage(resetTeleportState(
                              setFlowMode([@ EXCEPT !.display = "none"], FALSE)))]

\* TokenPool.despawn
despawn(w, token) ==
    [w EXCEPT !.tok[token] =
                  toStage(resetTeleportState(
                              setFlowMode([@ EXCEPT !.display = "none"], FALSE))),
              !.pool = Append(@, token)]

\* -------------------------------------------------------- layout strategies
Min(a, b) == IF a <= b THEN a ELSE b

\* Mutation of CenterRowStrategy.update: the available space is divided by
\* count instead of count - 1.
RowStepByCount(cardW, count, zoneWidth) ==
    IF count > 1
    THEN Min(cardW + Px(RowGap), (zoneWidth - cardW) \div count)
    ELSE cardW + Px(RowGap)

\* CenterRowStrategy.update: the step between consecutive items
\* for cards of width cardW
RowStepOf(cardW, count, zoneWidth) ==
    IF count > 1
    THEN Min(cardW + Px(RowGap), (zoneWidth - cardW) \div (count - 1))
    ELSE cardW + Px(RowGap)

RowStep(count, zoneWidth) == RowStepOf(cw, count, zoneWidth)

\* Mutation of CenterRowStrategy.update: the group starts at the anchor's
\* centre instead of half its width before it.
RowSlotFromCenter(cardW, cardH, i, count, center, step) ==
    [x |-> center.x + i * step, y |-> center.y - cardH \div 2, rot |-> 0, z |-> i]

\* CenterRowStrategy.update: where item i (from 0) of count goes
\* for cards of width cardW and height cardH
RowSlotOf(cardW, cardH, i, count, center, step) ==
    LET totalGroupWidth == (count - 1) * step + cardW
        startX == center.x - totalGroupWidth \div 2
        startY == center.y - cardH \div 2
    IN [x |-> startX + i * step, y |-> startY, rot |-> 0, z |-> i]

RowSlotAt(i, count, center, step) == RowSlotOf(cw, ch, i, count, center, step)

RowSlot(i, count, zoneEl) ==
    RowSlotAt(i, count, getRelativePos(zoneEl, StageEl),
              RowStep(count, offsetWidth(zoneEl)))

\* Math.sin(i * 12345), in millionths, for the indices a zone can hold
SinTable == <<0, -993772, -221484, 944409, 431965, -848137, -620991, 709735, 779170, -536081>>

\* PileStrategy.update: where item i (from 0) goes, for a pile configured
\* with maxAngle and cards of width cardW and height cardH
PileSlotOf(maxAngle, cardW, cardH, i, center) ==
    [x |-> center.x - cardW \div 2, y |-> center.y - cardH \div 2,
     rot |-> (SinTable[i + 1] * maxAngle) \div 1000, z |-> i]

PileSlotAt(i, center) == PileSlotOf(MaxAngle, cw, ch, i, center)

PileSlot(i, zoneEl) == PileSlotAt(i, getRelativePos(zoneEl, StageEl))

Max(a, b) == IF a >= b THEN a ELSE b

\* GridStrategy.update: const cols = this._cols || Math.max(1, Math.floor(...));
\* a column count of 0 (or none) is JavaScript's falsy case
GridCols(cols, cardW, zoneWidth) ==
    IF cols # 0 THEN cols
    ELSE Max(1, (zoneWidth + Px(GridGapX)) \div (cardW + Px(GridGapX)))

\* GridStrategy.update: zoneX and zoneY, the zone's top-left corner in
\* stage coordinates
GridCorner(zoneRect, stageRect, scale) ==
    [x |-> ((zoneRect.left - stageRect.left) * 100) \div scale,
     y |-> ((zoneRect.top - stageRect.top) * 100) \div scale]

GridCornerIn(zoneRect, stageRect, stageWidth) ==
    GridCorner(zoneRect, stageRect, ScaleOf(stageRect, stageWidth))

GridOrigin(zoneEl, stageEl) ==
    GridCornerIn(getBoundingClientRect(zoneEl), getBoundingClientRect(stageEl),
                 offsetWidth(stageEl))

\* Mutation of GridStrategy.update: column and row exchanged.
GridSlotTransposed(cardW, cardH, i, cols, corner) ==
    [x |-> corner.x + (i \div cols) * (cardW + Px(GridGapX)),
     y |-> corner.y + (i % cols) * (cardH + Px(GridGapY)),
     rot |-> 0, z |-> i]

\* GridStrategy.update: where item i (from 0) goes, with cols columns
GridSlotOf(cardW, cardH, i, cols, corner) ==
    [x |-> corner.x + (i % cols) * (cardW + Px(GridGapX)),
     y |-> corner.y + (i \div cols) * (cardH + Px(GridGapY)),
     rot |-> 0, z |-> i]

\* Mutation of the strategies' forEach body: the slot is added to where the
\* token is instead of replacing it.
placeFromHere(t, s) == [moveTo(t, t.x + s.x, t.y + s.y, s.rot) EXCEPT !.z = s.z]

\* item.moveTo(x, y, rot); item.el.style.zIndex = i
place(t, s) == [moveTo(t, s.x, s.y, s.rot) EXCEPT !.z = s.z]

\* the forEach of CenterRowStrategy.update / PileStrategy.update, from item i
RECURSIVE placeEach(_, _, _, _)
placeEach(tk, its, i, z) ==
    IF i > Len(its) THEN tk
    ELSE placeEach([tk EXCEPT ![its[i]] =
                        place(@, IF ZoneKind[z] = "row"
                                 THEN RowSlot(i - 1, Len(its), z)
                                 ELSE PileSlot(i - 1, z))],
                   its, i + 1, z)

\* the forEach of DomFlowStrategy.update, from item i
RECURSIVE flowEach(_, _, _, _)
flowEach(tk, its, i, z) ==
    IF i > Len(its) THEN tk
    ELSE flowEach([tk EXCEPT ![its[i]] =
                       [setFlowMode(@, TRUE) EXCEPT !.z = i - 1, !.parent = z]],
                  its, i + 1, z)

\* strategy.update(items, zoneEl, stageEl) for the zone's strategy
update(tk, its, z) ==
    IF ZoneKind[z] = "flow" THEN flowEach(tk, its, 1, z) ELSE placeEach(tk, its, 1, z)

\* -------------------------------------------------------------------- Zone
\* Zone.render
render(w, z) == [w EXCEPT !.tok = update(w.tok, w.items[z], z)]

\* What a call finds when it starts: the card type and the flip state of
\* the token it names and its flip option (was), the number of tokens
\* created and the length of the free list (had); here of no call.
NoFace == [type |-> "null", flipped |-> FALSE, flip |-> FALSE]

\* The completion record of a call that is not outstanding.
NoCall ==
    [st |-> "idle", hasCb |-> FALSE, n |-> 0, op |-> "none", orig |-> None,
     was |-> NoFace, had |-> [created |-> 0, free |-> 0]]

\* a completion callback runs: onComplete, when the caller gave one, gets
\* arg; the call is over and its record keeps only whether there is an
\* onComplete and the number of times it ran; cbPool and cbCls are what onComplete finds: the free
\* list and the token's classes
invoke(w, slot, arg) ==
    IF slot = None THEN w
    ELSE LET c == w.calls[slot]
             n == IF c.hasCb THEN c.n + 1 ELSE c.n
         IN [w EXCEPT !.calls[slot] = [NoCall EXCEPT !.st = "done", !.hasCb = c.hasCb,
                                                     !.n = n],
                      !.cb = slot, !.cbArg = arg, !.cbOp = c.op, !.cbOrig = c.orig,
                      !.cbCount = n, !.cbPool = w.pool, !.cbCls = w.tok[arg].cls,
                      !.cbWas = c.was]

\* setTimeout(callback, duration)
setTimeout(w, timer) == [w EXCEPT !.timers = @ \cup {timer}]

\* to: the zone the token is to join or has joined, if any;
\* flag: newFlipped of a transfer, despawnAfter of a discard; reused: the
\* pool has handed the token out again since the timer was set
Timer(kind, token, to, cardType, flag, slot) ==
    [kind |-> kind, tok |-> token, to |-> to, type |-> cardType, flag |-> flag,
     slot |-> slot, reused |-> FALSE]

\* Zone.add
add(w, z, token) == render([w EXCEPT !.items[z] = Append(@, token)], z)

\* Mutation of Zone.addWithTeleport: on a flow zone too onComplete is
\* called at once, and no timer is set.
appearAtOnce(w, z, token, slot) ==
    IF isFlowZone(z)
    THEN invoke([w EXCEPT !.tok[token] = teleportInDone(teleportIn(@))], slot, token)
    ELSE invoke(w, slot, token)

\* Zone.addWithTeleport, after the push and the render
appear(w, z, token, slot) ==
    IF isFlowZone(z)
    THEN setTimeout([w EXCEPT !.tok[token] = teleportIn(@)],
                    Timer("teleportIn", token, z, "null", FALSE, slot))
    ELSE invoke(w, slot, token)

\* Zone.addWithTeleport
addWithTeleport(w, z, token, slot) ==
    appear(render([w EXCEPT !.items[z] = Append(@, token)], z), z, token, slot)

\* Array.prototype.splice(idx, 1) on a 0-based index
splice(s, idx) == SubSeq(s, 1, idx) \o SubSeq(s, idx + 2, Len(s))

\* indices.sort((a, b) => b - a): descending
RECURSIVE sortDesc(_)
sortDesc(s) ==
    IF Len(s) <= 1 THEN s
    ELSE LET rest == sortDesc(Tail(s))
             k == Cardinality({j \in 1..Len(rest) : rest[j] >= Head(s)})
         IN SubSeq(rest, 1, k) \o <<Head(s)>> \o SubSeq(rest, k + 1, Len(rest))

\* the forEach of Zone.removeIndices over the sorted indices, from the j-th:
\* the item list left and the removed tokens
RECURSIVE removeEach(_, _, _, _)
removeEach(its, removed, sorted, j) ==
    IF j > Len(sorted) THEN [items |-> its, removed |-> removed]
    ELSE LET idx == sorted[j]
         IN IF idx >= 0 /\ idx < Len(its)
            THEN removeEach(splice(its, idx), Append(removed, its[idx + 1]), sorted, j + 1)
            ELSE removeEach(its, removed, sorted, j + 1)

\* Zone.removeIndices, after the forEach: render and return the removed
removedFrom(w, z, r) ==
    [render([w EXCEPT !.items[z] = r.items], z) EXCEPT !.ret = r.removed]

\* Zone.removeIndices
removeIndices(w, z, indices) ==
    removedFrom(w, z, removeEach(w.items[z], <<>>, sortDesc(indices), 1))

\* Array.prototype.indexOf, 0-based, -1 when absent
indexOf(s, e) ==
    IF \E j \in 1..Len(s) : s[j] = e
    THEN (CHOOSE j \in 1..Len(s) : s[j] = e /\ \A k \in 1..(j - 1) : s[k] # e) - 1
    ELSE -1

\* Mutation of Zone.removeToken: lastIndexOf instead of indexOf, the last
\* occurrence is removed.
removeTokenLast(w, z, token) ==
    LET its == w.items[z]
        found == {j \in 1..Len(its) : its[j] = token}
        idx == IF found = {} THEN -1
               ELSE (CHOOSE j \in found : \A k \in found : k <= j) - 1
    IN IF idx # -1
       THEN [render([w EXCEPT !.items[z] = splice(@, idx)], z) EXCEPT !.ret = TRUE]
       ELSE [w EXCEPT !.ret = FALSE]

\* Mutation of Zone.removeToken: no test of idx, so that splice(-1, 1)
\* takes the last item out when the token is absent.
removeTokenUnguarded(w, z, token) ==
    LET idx == indexOf(w.items[z], token)
    IN IF idx # -1
       THEN [render([w EXCEPT !.items[z] = splice(@, idx)], z) EXCEPT !.ret = TRUE]
       ELSE [render([w EXCEPT !.items[z] = SubSeq(@, 1, Len(@) - 1)], z)
                EXCEPT !.ret = TRUE]

\* Zone.removeToken
removeToken(w, z, token) ==
    LET idx == indexOf(w.items[z], token)
    IN IF idx # -1
       THEN [render([w EXCEPT !.items[z] = splice(@, idx)], z) EXCEPT !.ret = TRUE]
       ELSE [w EXCEPT !.ret = FALSE]

\* Zone.clear
clear(w, z) ==
    LET all == w.items[z]
    IN [render([w EXCEPT !.items[z] = <<>>], z) EXCEPT !.ret = all]

\* ------------------------------------------------------- CardVisualEngine
\* A choreography call starts: its completion record, with the token it
\* names as the call finds it and the call's flip option.
begin(w, slot, op, hasCb, token, flip) ==
    [w EXCEPT !.calls[slot] =
                  [st |-> "pending", hasCb |-> hasCb, n |-> 0, op |-> op, orig |-> token,
                   was |-> [type |-> IF token = None THEN "null" ELSE w.tok[token].type,
                            flipped |-> IF token = None THEN FALSE
                                        ELSE w.tok[token].flipped,
                            flip |-> flip],
                   had |-> [created |-> w.created, free |-> Len(w.pool)]]]

\* CardVisualEngine.transferCard:  const needsTeleport = ...
needsTeleport(fromZone, toZone) == isFlowZone(fromZone) \/ isFlowZone(toZone)

\* if (flip) token.setFlipped(!token.isFlipped)
flipIf(w, token, flip) ==
    IF flip THEN [w EXCEPT !.tok[token] = setFlipped(@, ~@.flipped)] ELSE w

\* Mutation of CardVisualEngine.transferCard: the teleport branch passes
\* wasFlipped on, whatever flipOnTransfer says.
transferTeleportAsWas(w, token, fromZone, toZone, flipOnTransfer, slot) ==
    [setTimeout([removeToken(w, fromZone, token) EXCEPT !.tok[token] = teleportOut(@)],
                Timer("transferOut", token, toZone, w.tok[token].type,
                      w.tok[token].flipped, slot))
        EXCEPT !.ret = None]

\* CardVisualEngine.transferCard, the teleport branch
transferTeleport(w, token, fromZone, toZone, flipOnTransfer, slot) ==
    LET cardType == w.tok[token].type
        wasFlipped == w.tok[token].flipped
        newFlipped == IF flipOnTransfer THEN ~wasFlipped ELSE wasFlipped
    IN [setTimeout([removeToken(w, fromZone, token) EXCEPT !.tok[token] = teleportOut(@)],
                   Timer("transferOut", token, toZone, cardType, newFlipped, slot))
           EXCEPT !.ret = None]

\* Mutation of CardVisualEngine.transferCard: the same-identity move adds to
\* the destination without removing from the source.
transferCardNoRemove(w, token, fromZone, toZone, flipOnTransfer, slot) ==
    IF needsTeleport(fromZone, toZone)
    THEN transferTeleport(w, token, fromZone, toZone, flipOnTransfer, slot)
    ELSE [invoke(add(flipIf(w, token, flipOnTransfer), toZone, token), slot, token)
              EXCEPT !.ret = token]

\* CardVisualEngine.transferCard
transferCard(w, token, fromZone, toZone, flipOnTransfer, slot) ==
    IF needsTeleport(fromZone, toZone)
    THEN transferTeleport(w, token, fromZone, toZone, flipOnTransfer, slot)
    ELSE [invoke(add(flipIf(removeToken(w, fromZone, token), token, flipOnTransfer),
                     toZone, token),
                 slot, token)
              EXCEPT !.ret = token]

\* the teleportOut callback of transferCard: the spawn of the new token
respawn(w, tm) ==
    IF isFlowZone(tm.to)
    THEN spawnIntoContainer(w, tm.type, tm.to, tm.flag)
    ELSE spawn(w, tm.type, tm.to, tm.flag)

\* toZone.addWithTeleport(newToken, ...) on the token just spawned
addSpawned(w, toZone, slot) == addWithTeleport(w, toZone, w.ret, slot)

\* Mutation of the teleportOut callback of transferCard: the original is
\* not despawned before the new token is spawned.
transferOutDoneKeep(w, tm) == addSpawned(respawn(w, tm), tm.to, tm.slot)

\* the teleportOut callback of transferCard
transferOutDone(w, tm) == addSpawned(respawn(despawn(w, tm.tok), tm), tm.to, tm.slot)

\* CardVisualEngine.drawCard, after the spawn: the token joins the zone and
\* is returned
drawInto(w, toZone, slot) ==
    IF isFlowZone(toZone)
    THEN [addWithTeleport(w, toZone, w.ret, slot) EXCEPT !.ret = w.ret]
    ELSE [invoke(add(w, toZone, w.ret), slot, w.ret) EXCEPT !.ret = w.ret]

\* Mutation of CardVisualEngine.drawCard: initialFlipped is not passed on
\* to the pool.
drawCardFaceUp(w, cardType, sourceAnchorEl, toZone, initialFlipped, slot) ==
    drawInto(IF isFlowZone(toZone)
             THEN spawnIntoContainer(w, cardType, toZone, FALSE)
             ELSE spawn(w, cardType, sourceAnchorEl, FALSE),
             toZone, slot)

\* CardVisualEngine.drawCard
drawCard(w, cardType, sourceAnchorEl, toZone, initialFlipped, slot) ==
    drawInto(IF isFlowZone(toZone)
             THEN spawnIntoContainer(w, cardType, toZone, initialFlipped)
             ELSE spawn(w, cardType, sourceAnchorEl, initialFlipped),
             toZone, slot)

\* if (destAnchorEl) token.moveToAnchor(destAnchorEl)
moveIfAnchor(w, token, destAnchorEl) ==
    IF destAnchorEl # None
    THEN [w EXCEPT !.tok[token] = moveToAnchor(@, destAnchorEl, 0)]
    ELSE w

\* Mutation of CardVisualEngine.discardCard: the token is despawned at once,
\* before the timer is set.
discardTimerEager(w, token, despawnAfter, slot) ==
    IF despawnAfter
    THEN setTimeout(despawn(w, token), Timer("discardMove", token, None, "null", TRUE, slot))
    ELSE IF w.calls[slot].hasCb
         THEN setTimeout(w, Timer("discardNotify", token, None, "null", FALSE, slot))
         ELSE [w EXCEPT !.calls[slot] = [NoCall EXCEPT !.st = "done"]]

\* CardVisualEngine.discardCard, the end of the non-flow branch: the timer
\* that despawns, or the one that only calls onComplete
discardTimer(w, token, despawnAfter, slot) ==
    IF despawnAfter
    THEN setTimeout(w, Timer("discardMove", token, None, "null", TRUE, slot))
    ELSE IF w.calls[slot].hasCb
         THEN setTimeout(w, Timer("discardNotify", token, None, "null", FALSE, slot))
         ELSE [w EXCEPT !.calls[slot] = [NoCall EXCEPT !.st = "done"]]

\* CardVisualEngine.discardCard, after the removeToken
discardRemoved(w, token, fromZone, destAnchorEl, despawnAfter, flipOnDiscard, slot) ==
    IF isFlowZone(fromZone)
    THEN setTimeout([w EXCEPT !.tok[token] = teleportOut(@)],
                    Timer("discardOut", token, None, "null", despawnAfter, slot))
    ELSE discardTimer(moveIfAnchor(flipIf(w, token, flipOnDiscard), token, destAnchorEl),
                      token, despawnAfter, slot)

\* Mutation of CardVisualEngine.discardCard: the token is not removed from
\* fromZone.
discardCardKeep(w, token, fromZone, destAnchorEl, despawnAfter, flipOnDiscard, slot) ==
    discardRemoved([w EXCEPT !.ret = None],
                   token, fromZone, destAnchorEl, despawnAfter, flipOnDiscard, slot)

\* CardVisualEngine.discardCard
discardCard(w, token, fromZone, destAnchorEl, despawnAfter, flipOnDiscard, slot) ==
    discardRemoved([removeToken(w, fromZone, token) EXCEPT !.ret = None],
                   token, fromZone, destAnchorEl, despawnAfter, flipOnDiscard, slot)

\* Mutation of the timer callbacks: the one that only reports a discard
\* does not call onComplete.
timerBodyQuiet(w, tm) ==
    CASE tm.kind = "transferOut" -> transferOutDone(w, tm)
      [] tm.kind = "teleportIn" ->
            invoke([w EXCEPT !.tok[tm.tok] = teleportInDone(@)], tm.slot, tm.tok)
      [] tm.kind = "discardOut" ->
            invoke(IF tm.flag THEN despawn(w, tm.tok) ELSE w, tm.slot, tm.tok)
      [] tm.kind = "discardMove" -> invoke(despawn(w, tm.tok), tm.slot, tm.tok)
      [] OTHER -> w

\* a pending timer's callback
timerBody(w, tm) ==
    CASE tm.kind = "transferOut" -> transferOutDone(w, tm)
      [] tm.kind = "teleportIn" ->
            invoke([w EXCEPT !.tok[tm.tok] = teleportInDone(@)], tm.slot, tm.tok)
      [] tm.kind = "discardOut" ->
            invoke(IF tm.flag THEN despawn(w, tm.tok) ELSE w, tm.slot, tm.tok)
      [] tm.kind = "discardMove" -> invoke(despawn(w, tm.tok), tm.slot, tm.tok)
      [] OTHER -> invoke(w, tm.slot, tm.tok)

\* CardVisualEngine.renderAll
RECURSIVE renderFrom(_, _)
renderFrom(w, z) == IF z > Len(ZoneKind) THEN w ELSE renderFrom(render(w, z), z + 1)

renderAll(w) == renderFrom(w, 1)

\* ------------------------------------------------------------ the actions
\* new CardVisualEngine(...) and its zones: no token, no timer, no call
Fresh ==
    /\ tok = [t \in Tokens |-> NewToken(Detached)]
    /\ created = 0
    /\ pool = <<>>
    /\ items = [z \in Zones |-> <<>>]
    /\ timers = {}
    /\ calls = [s \in Slots |-> NoCall]

Init ==
    /\ Fresh
    /\ last = [op |-> "init", tok |-> None, from |-> None, to |-> None,
               arg |-> None, ret |-> None, cb |-> None, cbArg |-> None,
               cbOp |-> "none", cbOrig |-> None, cbCount |-> 0,
               cbPool |-> <<>>, cbCls |-> {}, cbWas |-> NoFace]

\* The operation's effect becomes the next state; last records the call
\* (its token and zones, arg: what else identifies it), what it returned
\* and the completion callback it ran, if any.
Commit(w0, op, token, fromZone, toZone, arg) ==
    \E w \in {w0} :
        /\ tok' = w.tok
        /\ created' = w.created
        /\ pool' = w.pool
        /\ items' = w.items
        /\ timers' = w.timers
        /\ calls' = w.calls
        /\ last' = [op |-> op, tok |-> token, from |-> fromZone, to |-> toZone,
                    arg |-> arg, ret |-> w.ret, cb |-> w.cb, cbArg |-> w.cbArg,
                    cbOp |-> w.cbOp, cbOrig |-> w.cbOrig, cbCount |-> w.cbCount,
                    cbPool |-> w.cbPool, cbCls |-> w.cbCls, cbWas |-> w.cbWas]

\* Token references a caller can hold: every token ever returned to it.
Created == 1..created

\* Tokens with a pending timer, and the zones' members.
InFlight == {tm.tok : tm \in timers}
InZones == UNION {Range(items[z]) : z \in Zones}

\* A caller is described by the inputs it chooses from, by how much it asks
\* for (tokens alive, calls outstanding, items in the zones) and by whether it
\* is careful: a careful caller names a token only where the token is (a
\* member of the source zone, a token in no zone for add and despawn) and
\* never while a timer is pending on it.
AnyCaller ==
    [types |-> Types, flips |-> BOOLEAN, anchors |-> {None, Deck}, cbs |-> BOOLEAN,
     zones |-> Zones, careful |-> FALSE,
     tokens |-> MaxTokens, calls |-> MaxCalls, items |-> MaxItems]
CarefulCaller == [AnyCaller EXCEPT !.careful = TRUE]
\* a careless caller with one card type, face up, no anchor
BluntCaller ==
    [AnyCaller EXCEPT !.types = {"A"}, !.flips = {FALSE}, !.anchors = {None},
                      !.cbs = {TRUE}]
\* a careful caller with one card type, face up, that always passes
\* onComplete and uses the row zone and the flow zone
PlainCaller ==
    [CarefulCaller EXCEPT !.types = {"A"}, !.flips = {FALSE}, !.anchors = {Deck},
                          !.cbs = {TRUE}, !.zones = {1, 3}]

\* a careful caller with one card type that moves cards between the row
\* zone and the pile zone, face up or face down
MoveCaller ==
    [CarefulCaller EXCEPT !.types = {"A"}, !.anchors = {Deck}, !.cbs = {TRUE},
                          !.zones = {1, 2}]

\* a caller with one card type that fills the row zone and the flow zone
\* with any token it ever got, the same one twice too
RemoveCaller == [BluntCaller EXCEPT !.zones = {1, 3}]

\* a careful caller with one card type that uses every zone directly
LayoutCaller == [BluntCaller EXCEPT !.careful = TRUE]

Held(c, token) ==
    c.careful => token \notin InFlight /\ token \notin Range(pool)
Loose(c, token) == Held(c, token) /\ (c.careful => token \notin InZones)
Member(c, token, z) == Held(c, token) /\ (c.careful => token \in Range(items[z]))

\* spawn and spawnIntoContainer can run: a free token exists or the caller
\* may still have one more element created.
CanSpawn(c) == Len(pool) > 0 \/ created < c.tokens

\* The completion record a new call takes: the first one not outstanding.
FreeSlots(c) ==
    {s \in 1..c.calls : calls[s].st # "pending" /\ \A tm \in timers : tm.slot # s}
NextSlot(c) == CHOOSE s \in FreeSlots(c) : \A r \in FreeSlots(c) : s <= r

\* the items of zones 1..k together
RECURSIVE itemCount(_)
itemCount(k) == IF k = 0 THEN 0 ELSE Len(items[k]) + itemCount(k - 1)

\* Bounds of the exploration: a caller-initiated add finds room in the item
\* lists, counting the tokens pending transfers will still append; a
\* caller-initiated despawn finds room in the free list, counting the
\* tokens pending timers will still push.
Room(c) ==
    itemCount(Len(ZoneKind)) + Cardinality({tm \in timers : tm.kind = "transferOut"})
        < c.items
PoolRoom(c) == Len(pool) + Cardinality(timers) <= c.tokens

\* Index lists a caller passes to removeIndices: up to two indices, some
\* negative or past the end.
IndexRange == (0 - 1)..MaxItems
IndexLists == {<<>>} \cup {<<a>> : a \in IndexRange}
                     \cup {<<a, b>> : a \in IndexRange, b \in IndexRange}

Spawn(c) ==
    \E cardType \in c.types, anchorEl \in c.anchors, initialFlipped \in c.flips :
        /\ CanSpawn(c)
        /\ Commit(spawn(World, cardType, anchorEl, initialFlipped),
                  "spawn", None, None, None, <<cardType, initialFlipped>>)

SpawnIntoFlow(c) ==
    \E cardType \in c.types, z \in c.zones, initialFlipped \in c.flips :
        /\ isFlowZone(z)
        /\ CanSpawn(c)
        /\ Commit(spawnIntoContainer(World, cardType, z, initialFlipped),
                  "spawnIntoFlow", None, None, z, <<cardType, initialFlipped>>)

Despawn(c) ==
    \E token \in Created :
        /\ Loose(c, token)
        /\ PoolRoom(c)
        /\ Commit(despawn(World, token), "despawn", token, None, None, None)

ZoneAdd(c) ==
    \E z \in c.zones, token \in Created :
        /\ Loose(c, token)
        /\ Room(c)
        /\ Commit(add(World, z, token), "add", token, None, z, None)

ZoneAddWithTeleport(c) ==
    \E z \in c.zones, token \in Created, hasCb \in c.cbs :
        /\ Loose(c, token)
        /\ Room(c)
        /\ FreeSlots(c) # {}
        /\ Commit(addWithTeleport(begin(World, NextSlot(c), "addWithTeleport", hasCb, token,
                                        FALSE),
                                  z, token, NextSlot(c)),
                  "addWithTeleport", token, None, z, None)

ZoneRemoveIndices(c) ==
    \E z \in c.zones, indices \in IndexLists :
        Commit(removeIndices(World, z, indices), "removeIndices", None, z, None, None)

ZoneRemoveToken(c) ==
    \E z \in c.zones, token \in Created :
        /\ Held(c, token)
        /\ Commit(removeToken(World, z, token), "removeToken", token, z, None, None)

ZoneClear(c) ==
    \E z \in c.zones :
        Commit(clear(World, z), "clear", None, z, None, None)

TransferCard(c) ==
    \E token \in Created, fromZone \in c.zones, toZone \in c.zones,
       flipOnTransfer \in c.flips, hasCb \in c.cbs :
        /\ Member(c, token, fromZone)
        /\ FreeSlots(c) # {}
        /\ Room(c) \/ (fromZone = toZone /\ token \in Range(items[toZone]))
        /\ needsTeleport(fromZone, toZone) => PoolRoom(c)
        /\ Commit(transferCard(begin(World, NextSlot(c), "transferCard", hasCb, token,
                                     flipOnTransfer),
                               token, fromZone, toZone, flipOnTransfer, NextSlot(c)),
                  "transferCard", token, fromZone, toZone, flipOnTransfer)

DrawCard(c) ==
    \E cardType \in c.types, sourceAnchorEl \in c.anchors, toZone \in c.zones,
       initialFlipped \in c.flips, hasCb \in c.cbs :
        /\ FreeSlots(c) # {}
        /\ CanSpawn(c)
        /\ Room(c)
        /\ Commit(drawCard(begin(World, NextSlot(c), "drawCard", hasCb, None, FALSE),
                           cardType, sourceAnchorEl, toZone, initialFlipped, NextSlot(c)),
                  "drawCard", None, None, toZone, <<cardType, initialFlipped>>)

DiscardCard(c) ==
    \E token \in Created, fromZone \in c.zones, destAnchorEl \in c.anchors,
       despawnAfter \in BOOLEAN, flipOnDiscard \in c.flips, hasCb \in c.cbs :
        /\ Member(c, token, fromZone)
        /\ FreeSlots(c) # {}
        /\ PoolRoom(c)
        /\ Commit(discardCard(begin(World, NextSlot(c), "discardCard", hasCb, token,
                                    flipOnDiscard),
                              token, fromZone, destAnchorEl, despawnAfter,
                              flipOnDiscard, NextSlot(c)),
                  "discardCard", token, fromZone, None, despawnAfter)

\* A pending timer fires: it leaves the timer queue and its callback runs.
FireTimer(tm) ==
    Commit(timerBody([World EXCEPT !.timers = @ \ {tm}], tm),
           "fire", tm.tok, None, tm.to, tm)

Fire == \E tm \in timers : FireTimer(tm)

\* the timer of the call that holds completion record s fires
FireOf(s) == \E tm \in timers : tm.slot = s /\ FireTimer(tm)

\* The ResizeObserver callback: renderAll with transitions off.
Resize ==
    Commit(renderAll(World), "renderAll", None, None, None, None)

\* Every operation, on any token the caller ever got.
Next ==
    \/ Spawn(AnyCaller)
    \/ SpawnIntoFlow(AnyCaller)
    \/ Despawn(AnyCaller)
    \/ ZoneAdd(AnyCaller)
    \/ ZoneAddWithTeleport(AnyCaller)
    \/ ZoneRemoveIndices(AnyCaller)
    \/ ZoneRemoveToken(AnyCaller)
    \/ ZoneClear(AnyCaller)
    \/ TransferCard(AnyCaller)
    \/ DrawCard(AnyCaller)
    \/ DiscardCard(AnyCaller)
    \/ Fire
    \/ Resize

Spec == Init /\ [][Next]_vars

\* A caller that uses the pool directly and despawns only what it holds.
SpecPool ==
    /\ Init
    /\ [][\/ Spawn(CarefulCaller)
          \/ SpawnIntoFlow(CarefulCaller)
          \/ Despawn(CarefulCaller)]_vars

\* A caller that uses only the choreography operations, with care.
SpecChoreo ==
    /\ Init
    /\ [][\/ DrawCard(PlainCaller)
          \/ TransferCard(PlainCaller)
          \/ DiscardCard(PlainCaller)
          \/ Fire]_vars

\* a timer of the call that holds completion record s is pending
TimerPending(s) == \E tm \in timers : tm.slot = s

\* Weak fairness of FireOf(s), WF_vars(FireOf(s)), with the enabling
\* condition of FireOf(s) written out: a pending timer can always fire, and
\* firing removes it from the queue.
EventuallyFires(s) == []<>(~TimerPending(s)) \/ []<><<FireOf(s)>>_vars

\* The same caller, on a page whose timers all fire: setTimeout callbacks
\* are never cancelled, each one pending is eventually run.
FairChoreo == SpecChoreo /\ \A s \in Slots : EventuallyFires(s)

\* a caller with one card type that uses the row zone and names any token
\* it ever got, also one it has discarded or despawned
ReuseCaller == [BluntCaller EXCEPT !.zones = {1}]

\* A caller that draws, discards and despawns, without care.
SpecReuse ==
    /\ Init
    /\ [][\/ DrawCard(ReuseCaller)
          \/ DiscardCard(ReuseCaller)
          \/ Despawn(ReuseCaller)
          \/ Fire]_vars

\* A caller that moves cards between the coordinate zones, with care.
SpecMove ==
    /\ Init
    /\ [][\/ DrawCard(MoveCaller)
          \/ TransferCard(MoveCaller)
          \/ ZoneRemoveToken(MoveCaller)
          \/ ZoneAdd(MoveCaller)]_vars

\* A caller that adds tokens to zones, more than once too, and removes them.
SpecRemove ==
    /\ Init
    /\ [][\/ Spawn(RemoveCaller)
          \/ ZoneAdd(RemoveCaller)
          \/ ZoneRemoveToken(RemoveCaller)
          \/ ZoneRemoveIndices(RemoveCaller)]_vars

\* A caller that uses the zones directly, with care.
SpecLayout ==
    /\ Init
    /\ [][\/ Spawn(LayoutCaller)
          \/ SpawnIntoFlow(LayoutCaller)
          \/ ZoneAdd(LayoutCaller)
          \/ ZoneAddWithTeleport(LayoutCaller)
          \/ ZoneRemoveToken(LayoutCaller)
          \/ ZoneRemoveIndices(LayoutCaller)
          \/ ZoneClear(LayoutCaller)
          \/ Fire
          \/ Resize]_vars

\* a careful caller that draws cards of every type, face up or face down,
\* from the deck into the row zone and the flow zone, and discards them to
\* the deck
DrawCaller ==
    [CarefulCaller EXCEPT !.anchors = {Deck}, !.cbs = {TRUE}, !.zones = {1, 3}]

\* A caller that draws and discards, with care.
SpecDraw ==
    /\ Init
    /\ [][\/ DrawCard(DrawCaller)
          \/ DiscardCard(DrawCaller)
          \/ Fire]_vars

\* A caller that draws cards of every type, face up or face down, and
\* transfers them between and within the row zone and the flow zone, with
\* or without a flip, with care.
SpecTransfer ==
    /\ Init
    /\ [][\/ DrawCard(DrawCaller)
          \/ TransferCard(DrawCaller)
          \/ Fire]_vars

\* a caller with one card type that names any token it ever got, also for
\* a zone in which the token is not, one call at a time: it draws into and
\* transfers between the coordinate zones, and discards from any zone
StrayCaller ==
    [BluntCaller EXCEPT !.zones = {1, 2}, !.calls = MaxCalls - 1, !.items = MaxItems - 1]

\* A caller that draws, transfers and discards, without care.
SpecStray ==
    /\ Init
    /\ [][\/ DrawCard(StrayCaller)
          \/ TransferCard(StrayCaller)
          \/ DiscardCard([StrayCaller EXCEPT !.zones = Zones])
          \/ Fire]_vars

\* A caller that spawns, adds to zones and despawns, with care.
SpecToken ==
    /\ Init
    /\ [][\/ Spawn(LayoutCaller)
          \/ SpawnIntoFlow(LayoutCaller)
          \/ ZoneAdd(LayoutCaller)
          \/ ZoneRemoveToken(LayoutCaller)
          \/ Despawn(LayoutCaller)]_vars

\* a caller with one card type that uses the flow zone and names any token
\* it ever got, also one that is a member of the zone
FreeCaller == [BluntCaller EXCEPT !.zones = {3}]

\* A caller that draws into the flow zone, removes and despawns, without
\* care, on a page that is resized.
SpecFree ==
    /\ Init
    /\ [][\/ DrawCard(FreeCaller)
          \/ ZoneRemoveToken(FreeCaller)
          \/ Despawn(FreeCaller)
          \/ Fire
          \/ Resize]_vars

\* ------------------------------------------- the layout strategies alone
\* A strategy's update on a list of count items, for cards and anchors of
\* several sizes; last holds the input and then the slots the items got.
CardWidths == {Px(40), Px(CardWidth), Px(120)}
AnchorWidths == {Px(30), Px(100), Px(200), Px(333), Px(1000)}
AnchorCenter == [x |-> Px(300) + 1, y |-> Px(200)]

\* CenterRowStrategy.update on count items: the slot of each item
RowUpdateOf(cardW, cardH, count, zoneWidth, center) ==
    [i \in 1..count |->
        RowSlotOf(cardW, cardH, i - 1, count, center, RowStepOf(cardW, count, zoneWidth))]

InitRow ==
    /\ Fresh
    /\ \E count \in 0..MaxCount, cardW \in CardWidths, zoneWidth \in AnchorWidths :
           last = [op |-> "rowInput", count |-> count, cardWidth |-> cardW,
                   zoneWidth |-> zoneWidth, center |-> AnchorCenter, slots |-> <<>>]

RowUpdate ==
    /\ last.op = "rowInput"
    /\ last' = [last EXCEPT !.op = "rowUpdate",
                            !.slots = RowUpdateOf(last.cardWidth, ch, last.count,
                                                  last.zoneWidth, last.center)]
    /\ UNCHANGED <<tok, created, pool, items, timers, calls>>

SpecRow == InitRow /\ [][RowUpdate]_vars

\* Column counts a grid zone is configured with; 0: none, computed.
GridColumns == 0..3

\* GridStrategy.update on count items: the slot of each item
GridUpdateOf(cardW, cardH, count, cols, zoneEl) ==
    [i \in 1..count |->
        GridSlotOf(cardW, cardH, i - 1, GridCols(cols, cardW, offsetWidth(zoneEl)),
                   GridOrigin(zoneEl, StageEl))]

InitGrid ==
    /\ Fresh
    /\ \E count \in 0..MaxCount, cardW \in CardWidths, cols \in GridColumns,
          zoneEl \in Anchors :
           last = [op |-> "gridInput", count |-> count, cardWidth |-> cardW,
                   cols |-> cols, zoneEl |-> zoneEl, slots |-> <<>>]

GridUpdate ==
    /\ last.op = "gridInput"
    /\ last' = [last EXCEPT !.op = "gridUpdate",
                            !.slots = GridUpdateOf(last.cardWidth, ch, last.count,
                                                   last.cols, last.zoneEl)]
    /\ UNCHANGED <<tok, created, pool, items, timers, calls>>

SpecGrid == InitGrid /\ [][GridUpdate]_vars

\* Tokens as the program leaves them before a pile lays them out: spawned
\* with no anchor, spawned at the deck, laid out as the second of two in
\* the row zone, spawned into the flow zone.
EarlierTokens ==
    {dress(NewToken(StageEl), "A", None, FALSE),
     dress(NewToken(StageEl), "A", Deck, FALSE),
     place(dress(NewToken(StageEl), "A", None, FALSE), RowSlot(1, 2, 1)),
     dressInContainer(NewToken(Detached), "A", 3, FALSE)}

\* Token lists of up to n items.
RECURSIVE TokenLists(_)
TokenLists(n) ==
    IF n = 0 THEN {<<>>}
    ELSE TokenLists(n - 1)
            \cup {Append(its, t) : its \in {l \in TokenLists(n - 1) : Len(l) = n - 1},
                                   t \in EarlierTokens}

\* PileStrategy.update: the x, y, angle and zIndex it computes for each item
PileSlotsOf(maxAngle, count, center) ==
    [j \in 1..count |-> PileSlotOf(maxAngle, cw, ch, j - 1, center)]

\* Mutation of PileStrategy.update: the angle is added to the rotation the
\* token has.
pileEachAdding(its, maxAngle, center) ==
    [j \in 1..Len(its) |->
        [moveTo(its[j], PileSlotOf(maxAngle, cw, ch, j - 1, center).x,
                PileSlotOf(maxAngle, cw, ch, j - 1, center).y,
                its[j].rot + PileSlotOf(maxAngle, cw, ch, j - 1, center).rot)
            EXCEPT !.z = j - 1]]

\* PileStrategy.update: the forEach, on the tokens themselves
pileEach(its, maxAngle, center) ==
    [j \in 1..Len(its) |-> place(its[j], PileSlotOf(maxAngle, cw, ch, j - 1, center))]

\* a pile configured with an angle (maxAngle, in degrees) gets a token list
InitPile ==
    /\ Fresh
    /\ \E its \in TokenLists(MaxCount), maxAngle \in {0, MaxAngle, 2 * MaxAngle},
          zoneEl \in Anchors :
           last = [op |-> "pileInput", its |-> its, maxAngle |-> maxAngle,
                   zoneEl |-> zoneEl, slots |-> <<>>, before |-> <<>>]

\* the pile lays the list out
PileUpdate ==
    /\ last.op = "pileInput"
    /\ last' = [last EXCEPT !.op = "pileUpdate",
                            !.its = pileEach(last.its, last.maxAngle,
                                             getRelativePos(last.zoneEl, StageEl)),
                            !.slots = PileSlotsOf(last.maxAngle, Len(last.its),
                                                  getRelativePos(last.zoneEl, StageEl))]
    /\ UNCHANGED <<tok, created, pool, items, timers, calls>>

\* the pile lays out as many items again, the same tokens in the opposite
\* order; before keeps what the first layout computed
PileAgain ==
    /\ last.op = "pileUpdate"
    /\ last' = [last EXCEPT !.op = "pileAgain",
                            !.its = pileEach([j \in 1..Len(last.its) |->
                                                 last.its[Len(last.its) + 1 - j]],
                                             last.maxAngle,
                                             getRelativePos(last.zoneEl, StageEl)),
                            !.slots = PileSlotsOf(last.maxAngle, Len(last.its),
                                                  getRelativePos(last.zoneEl, StageEl)),
                            !.before = last.slots]
    /\ UNCHANGED <<tok, created, pool, items, timers, calls>>

SpecPile == InitPile /\ [][PileUpdate \/ PileAgain]_vars

\* ------------------------------------------------------ createZone alone
\* The two classes the file exports, each with its createZone: last holds
\* the class, its _zones registry and the zone the last call returned.
Classes == {"CardVisualEngine", "Stage"}

\* strategyType values a caller passes: the four kinds and one that is none
StrategyTypes == {"row", "pile", "grid", "flow", "deck"}

\* CardVisualEngine.createZone: the if / else-if chain that picks the
\* strategy; strategy stays undefined when no branch matches
engineStrategy(strategyType) ==
    CASE strategyType = "row" -> "CenterRowStrategy"
      [] strategyType = "pile" -> "PileStrategy"
      [] strategyType = "flow" -> "DomFlowStrategy"
      [] OTHER -> "undefined"

\* Stage.createZone: the same chain in the Stage class
stageStrategy(strategyType) ==
    CASE strategyType = "row" -> "CenterRowStrategy"
      [] strategyType = "pile" -> "PileStrategy"
      [] strategyType = "grid" -> "GridStrategy"
      [] OTHER -> "undefined"

\* new Zone(zoneElement, strategy, ...)
NewZone(strategyType, strategy) ==
    [kind |-> strategyType, strategy |-> strategy, items |-> <<>>]

\* createZone of the class cls
createZone(cls, strategyType) ==
    NewZone(strategyType, IF cls = "Stage" THEN stageStrategy(strategyType)
                          ELSE engineStrategy(strategyType))

\* Zone.render and Zone.isFlowZone read a member of this._strategy: a
\* TypeError when the strategy is undefined
strategyCalls(zone) == IF zone.strategy = "undefined" THEN "TypeError" ELSE "ok"

InitZones ==
    /\ Fresh
    /\ \E cls \in Classes :
           last = [op |-> "new", cls |-> cls, zones |-> <<>>, ret |-> None]

CreateZone ==
    /\ last.op \in {"new", "createZone"}
    /\ Len(last.zones) < MaxZones
    /\ \E strategyType \in StrategyTypes :
           last' = [last EXCEPT !.op = "createZone",
                                !.zones = Append(@, createZone(last.cls, strategyType)),
                                !.ret = createZone(last.cls, strategyType)]
    /\ UNCHANGED <<tok, created, pool, items, timers, calls>>

SpecZones == InitZones /\ [][CreateZone]_vars

\* ------------------------------------------------------------- the claims
\* s without the first occurrence of the token t
Without(s, t) ==
    LET before == {j \in 1..Len(s) : \A k \in 1..j : s[k] # t}
        n == Cardinality(before)
    IN [j \in 1..(Len(s) - 1) |-> IF j <= n THEN s[j] ELSE s[j + 1]]

\* C2: a transferCard call between two coordinate zones on a member of
\* fromZone has, when it returns, removed the token (its first occurrence,
\* should a caller have added it twice) from fromZone, appended
\* it as the last item of toZone, toggled its flip state iff flipOnTransfer,
\* invoked onComplete once with that token, returned that token, and left
\* the free list as it was.
C2_SameIdentityMove ==
    [][(/\ last'.op = "transferCard"
        /\ ~needsTeleport(last'.from, last'.to)
        /\ last'.tok \in Range(items[last'.from]))
       => LET t == last'.tok
              taken == [items EXCEPT ![last'.from] = Without(@, t)]
          IN /\ items' = [taken EXCEPT ![last'.to] = Append(@, t)]
             /\ tok'[t].flipped = (tok[t].flipped # last'.arg)
             /\ last'.cbArg = t /\ last'.cbCount = 1
             /\ last'.ret = t
             /\ pool' = pool]_vars

\* C2's case: a flipping transfer between two different coordinate zones
\* put the token behind another one and told onComplete.
C2_Witness ==
    /\ last.op = "transferCard" /\ last.from # last.to /\ last.arg = TRUE
    /\ ~needsTeleport(last.from, last.to)
    /\ Len(items[last.to]) >= 2
    /\ items[last.to][Len(items[last.to])] = last.tok
    /\ last.cbArg = last.tok

\* The k-th smallest and the k-th largest element of a set of numbers.
NthUp(S, k) == CHOOSE j \in S : Cardinality({i \in S : i < j}) = k - 1
NthDown(S, k) == CHOOSE j \in S : Cardinality({i \in S : i > j}) = k - 1

\* The 0-based positions of s that the index list names.
Named(s, indices) == {i \in Range(indices) : 0 <= i /\ i < Len(s)}

\* s without the items at the 0-based positions P, in their order, and the
\* items at those positions from the highest position down.
KeptFrom(s, P) ==
    LET keep == {i \in 0..(Len(s) - 1) : i \notin P}
    IN [k \in 1..Cardinality(keep) |-> s[NthUp(keep, k) + 1]]
TakenFrom(s, P) == [k \in 1..Cardinality(P) |-> s[NthDown(P, k) + 1]]

\* C3: no token is in the item lists of two different zones.
C3_OneZonePerToken ==
    \A t \in Tokens, y \in Zones, z \in Zones :
        (t \in Range(items[y]) /\ t \in Range(items[z])) => y = z

\* C8: for every zone and index list (repeated, unsorted, negative and
\* out-of-range indices included), removeIndices removes exactly the items
\* that were at the named positions, keeps the others in order, returns the
\* removed ones from the highest original index down, and ignores indices
\* that name no item.
C8_RemovesNamedPositions ==
    \A z \in Zones, indices \in IndexLists :
        LET r == removeIndices(World, z, indices)
            P == Named(items[z], indices)
        IN /\ r.items = [items EXCEPT ![z] = KeptFrom(@, P)]
           /\ r.ret = TakenFrom(items[z], P)

\* Where the strategy of zone z puts the item at 0-based index i of s.
SlotOf(z, i, s) ==
    IF ZoneKind[z] = "row" THEN RowSlot(i, Len(s), z) ELSE PileSlot(i, z)

\* C10: after add, addWithTeleport, removeIndices, removeToken and clear,
\* every token in the item list of a row or pile zone has the position,
\* rotation and z-order its zone's strategy assigns to its index.
C10_LayoutAgrees ==
    last.op \in {"add", "addWithTeleport", "removeIndices", "removeToken", "clear"} =>
        \A z \in Zones : ~isFlowZone(z) =>
            \A j \in 1..Len(items[z]) :
                LET t == tok[items[z][j]]
                    s == SlotOf(z, j - 1, items[z])
                IN t.x = s.x /\ t.y = s.y /\ t.rot = s.rot /\ t.z = s.z

\* C9: removeToken of a token the zone does not hold returns false, and
\* removeIndices with only out-of-range indices returns the empty list; both
\* leave every item list and the free list as they were. removeToken of a
\* token the zone holds removes its first occurrence only and returns true.
C9_AbsentIsNoOp ==
    \A z \in Zones :
        /\ \A t \in Tokens \ Range(items[z]) :
               LET r == removeToken(World, z, t)
               IN r.ret = FALSE /\ r.items = items /\ r.pool = pool
        /\ \A indices \in IndexLists :
               Named(items[z], indices) = {} =>
                   LET r == removeIndices(World, z, indices)
                   IN r.ret = <<>> /\ r.items = items /\ r.pool = pool
        /\ \A t \in Range(items[z]) :
               LET r == removeToken(World, z, t)
               IN /\ r.ret = TRUE
                  /\ r.items = [items EXCEPT ![z] = Without(@, t)]
                  /\ r.pool = pool

\* C9's case: removeToken took the first of two occurrences of a token out
\* of a zone, and another token stood between them.
C9_Witness ==
    /\ last.op = "removeToken" /\ last.ret = TRUE
    /\ Len(items[last.from]) = 2
    /\ items[last.from][2] = last.tok /\ items[last.from][1] # last.tok

\* What spawn(type, anchor, flipped) would do in world w, for every input:
\* it returns t, with flow mode off, no teleport class, the given card type
\* and the given flip state.
NextSpawnGives(w, t) ==
    \A cardType \in Types, anchorEl \in {None, Deck}, initialFlipped \in BOOLEAN :
        LET r == spawn(w, cardType, anchorEl, initialFlipped)
        IN /\ r.ret = t
           /\ ~r.tok[t].flow
           /\ r.tok[t].cls \cap TeleportClasses = {}
           /\ r.tok[t].type = cardType
           /\ r.tok[t].flipped = initialFlipped
           /\ r.tok[t].display = "block"

\* C4, as amended: right after despawn(t), with no spawn and no other
\* despawn in between, spawn(type, anchor, flipped) returns t itself, with
\* flow mode off, no teleport class, card type = type and flip = flipped.
C4_SpawnAfterDespawn == last.op = "despawn" => NextSpawnGives(World, last.tok)

\* C4 as claimed: the same still holds of t when another token was
\* despawned after t and no spawn happened in between.
C4_AsClaimed ==
    [][(last.op = "despawn" /\ last'.op = "despawn") => NextSpawnGives(World', last.tok)]_vars

\* C4's case: a token was just despawned onto a free list that already held
\* another token, so which end spawn takes from matters.
C4_Witness == last.op = "despawn" /\ Len(pool) >= 2 /\ pool[Len(pool)] = last.tok

\* The row layout as an observer sees it in the slots: the step between
\* consecutive items (the code's step when there are fewer than two) and
\* the width of the group.
RowStepSeen(l) ==
    IF l.count >= 2 THEN l.slots[2].x - l.slots[1].x
    ELSE RowStepOf(l.cardWidth, l.count, l.zoneWidth)
RowGroupWidth(l) == (l.count - 1) * RowStepSeen(l) + l.cardWidth

\* The group's left and right edges are equally far from the anchor's
\* centre, to the unit the division by two rounds off.
RowCentered(l) ==
    l.count >= 1 =>
        l.slots[1].x + l.slots[l.count].x + l.cardWidth - 2 * l.center.x \in {0, 1}

\* C11 as claimed: for every count, card width and anchor width the row
\* layout assigns exactly count positions, the group is at most as wide as
\* the anchor and centered on its centre, and the step is at most
\* cardWidth + 10.
C11_AsClaimed ==
    last.op = "rowUpdate" =>
        /\ Len(last.slots) = last.count
        /\ RowGroupWidth(last) <= last.zoneWidth
        /\ RowCentered(last)
        /\ RowStepSeen(last) <= last.cardWidth + Px(RowGap)

\* C11, as amended: the row layout assigns exactly count positions, centered
\* on the anchor's centre, with a step of at most cardWidth + 10; the group
\* is at most as wide as the anchor when there are two items or more, and
\* a single item makes a group as wide as the card, whatever the anchor's
\* width.
C11_RowFits ==
    last.op = "rowUpdate" =>
        /\ Len(last.slots) = last.count
        /\ last.count >= 2 => RowGroupWidth(last) <= last.zoneWidth
        /\ last.count = 1 => RowGroupWidth(last) = last.cardWidth
        /\ RowCentered(last)
        /\ RowStepSeen(last) <= last.cardWidth + Px(RowGap)

\* C11's case: three items or more were squeezed into an anchor too narrow
\* for the full step.
C11_Witness ==
    /\ last.op = "rowUpdate" /\ last.count >= 3
    /\ RowStepSeen(last) < last.cardWidth + Px(RowGap)
    /\ RowStepSeen(last) > 0

\* C12: with more than one item the step is the smaller of cardWidth + 10
\* and (anchorWidth - cardWidth) / (count - 1), rounded down to the unit:
\* it never exceeds cardWidth + 10; item i is at startX + i * step with
\* z-order i; two 80-wide cards get step 90 in a 200-wide anchor and step 20
\* in a 100-wide one.
C12_RowStep ==
    (last.op = "rowUpdate" /\ last.count > 1) =>
        LET step == RowStepSeen(last)
            full == last.cardWidth + Px(RowGap)
            space == last.zoneWidth - last.cardWidth
        IN /\ step <= full
           /\ step * (last.count - 1) <= space
           /\ step = full \/ (step + 1) * (last.count - 1) > space
           /\ \A i \in 1..last.count :
                  /\ last.slots[i].x = last.slots[1].x + (i - 1) * step
                  /\ last.slots[i].z = i - 1
           /\ (last.count = 2 /\ last.cardWidth = Px(80) /\ last.zoneWidth = Px(200))
                  => step = Px(90)
           /\ (last.count = 2 /\ last.cardWidth = Px(80) /\ last.zoneWidth = Px(100))
                  => step = Px(20)

\* C12's case: two 80-wide cards were laid out in a 100-wide anchor.
C12_Witness ==
    /\ last.op = "rowUpdate" /\ last.count = 2
    /\ last.cardWidth = Px(80) /\ last.zoneWidth = Px(100)
    /\ last.slots[2].x - last.slots[1].x = Px(20)

\* The column count a grid layout used, as the claim gives it: the
\* configured one or the largest number of cards that fit side by side in
\* the anchor with the gap between them, and 1 when none fits.
GridColsFor(l) ==
    IF l.cols # 0 THEN l.cols
    ELSE CHOOSE c \in 1..(1 + LocalBox(l.zoneEl).width \div l.cardWidth) :
             /\ c = 1 \/ c * (l.cardWidth + Px(GridGapX)) <= LocalBox(l.zoneEl).width + Px(GridGapX)
             /\ (c + 1) * (l.cardWidth + Px(GridGapX)) > LocalBox(l.zoneEl).width + Px(GridGapX)

\* C13: in a grid zone item i is at column i mod cols and row i div cols
\* from the anchor's top-left corner, cols being the configured column
\* count or, with none configured, max(1, floor((anchorWidth + gapX) /
\* (cardWidth + gapX))), which is never 0.
C13_GridCells ==
    last.op = "gridUpdate" =>
        /\ Len(last.slots) = last.count
        /\ GridCols(0, last.cardWidth, LocalBox(last.zoneEl).width) >= 1
        /\ \A i \in 0..(last.count - 1) :
               /\ last.slots[i + 1].x = LocalBox(last.zoneEl).left
                      + (i % GridColsFor(last)) * (last.cardWidth + Px(GridGapX))
               /\ last.slots[i + 1].y = LocalBox(last.zoneEl).top
                      + (i \div GridColsFor(last)) * (ch + Px(GridGapY))

\* C13's case: a grid with no configured column count wrapped its third
\* item onto a second row of two columns.
C13_Witness ==
    /\ last.op = "gridUpdate" /\ last.cols = 0 /\ last.count >= 3
    /\ last.slots[3].y > last.slots[1].y
    /\ last.slots[3].x = last.slots[1].x
    /\ last.slots[2].y = last.slots[1].y

\* C14: a renderAll that follows a renderAll, with no zone mutation and no
\* geometry change in between, leaves every token as the first one left it
\* (position, rotation, z-order, flow mode), and renderAll changes no
\* zone's item list and not the free list.
C14_RenderAllAgain ==
    /\ renderAll(renderAll(World)).tok = renderAll(World).tok
    /\ renderAll(World).items = items
    /\ renderAll(World).pool = pool
    /\ last.op = "renderAll" => renderAll(World).tok = tok

\* C14's case: renderAll ran with an item in a coordinate zone and one in
\* the flow zone.
C14_Witness ==
    /\ last.op = "renderAll"
    /\ \E z \in Zones : ~isFlowZone(z) /\ Len(items[z]) >= 1
    /\ \E z \in Zones : isFlowZone(z) /\ Len(items[z]) >= 1

\* Where a token is: its position, rotation and the transform written to
\* its element.
Placement(t) == <<t.x, t.y, t.rot, t.tf>>
Pose(t) == <<t.x, t.y, t.rot>>

\* Coordinates and rotations a caller passes to moveTo and jumpTo.
SomeOffsets == {0, Px(5), Px(250)}
SomeAngles == {0, 15000}

\* C15: on a token in flow mode moveTo, moveToAnchor, jumpTo and
\* jumpToAnchor change neither x, y, rotation nor the transform;
\* setFlowMode(true) sets x, y and rotation to 0, and setFlowMode(false)
\* leaves them as they are.
C15_FlowModeFrame ==
    \A token \in Created :
        /\ tok[token].flow =>
               /\ \A x \in SomeOffsets, y \in SomeOffsets, rotation \in SomeAngles :
                      /\ Placement(moveTo(tok[token], x, y, rotation)) = Placement(tok[token])
                      /\ Placement(jumpTo(tok[token], x, y)) = Placement(tok[token])
               /\ \A targetEl \in Anchors, rotation \in SomeAngles :
                      /\ Placement(moveToAnchor(tok[token], targetEl, rotation))
                             = Placement(tok[token])
                      /\ Placement(jumpToAnchor(tok[token], targetEl)) = Placement(tok[token])
        /\ Pose(setFlowMode(tok[token], TRUE)) = <<0, 0, 0>>
        /\ Pose(setFlowMode(tok[token], FALSE)) = Pose(tok[token])

\* C15's case: a token in flow mode was added to a coordinate zone, whose
\* layout called moveTo on it, next to a token that the layout has moved.
C15_Witness ==
    /\ last.op = "add" /\ ~isFlowZone(last.to)
    /\ tok[last.tok].flow /\ Pose(tok[last.tok]) = <<0, 0, 0>>
    /\ \E token \in Created : ~tok[token].flow /\ tok[token].x # 0

\* the timers discardCard schedules
DiscardKinds == {"discardOut", "discardMove", "discardNotify"}

\* C16: discardCard has removed the token from fromZone when it returns and
\* has only scheduled a timer (the teleport-out one for a flow zone, the
\* move one otherwise): the free list is as before and onComplete has not
\* run.  While the timer is pending the token stays out of the free list.
\* When the timer fires, with despawnAfter the token is pushed onto the free
\* list and onComplete then runs, finding it there; without despawnAfter
\* the free list stays as it is.
C16_DiscardThenDespawn ==
    [][/\ last'.op = "discardCard" =>
            /\ last'.tok \notin Range(items'[last'.from])
            /\ pool' = pool
            /\ last'.cb = None
            /\ \E tm \in timers' \ timers :
                   /\ timers' = timers \cup {tm}
                   /\ tm.tok = last'.tok /\ tm.flag = last'.arg
                   /\ (tm.kind = "discardOut") = isFlowZone(last'.from)
       /\ \A tm \in timers :
            tm.kind \in DiscardKinds =>
                IF tm \in timers'
                THEN (tm.tok \in Range(pool')) = (tm.tok \in Range(pool))
                ELSE /\ last'.cbArg = tm.tok /\ last'.cbCount = 1
                     /\ last'.cbPool = pool'
                     /\ IF tm.flag THEN pool' = Append(pool, tm.tok) ELSE pool' = pool]_vars

\* C16's case: the timer of a discard from a coordinate zone fired,
\* despawned the token and told onComplete.
C16_Witness ==
    /\ last.op = "fire" /\ last.arg.kind = "discardMove"
    /\ last.cbArg = last.tok /\ last.cbOp = "discardCard"
    /\ Len(pool) >= 1 /\ pool[Len(pool)] = last.tok

\* C17: when drawCard(type, anchor, toZone) returns, the returned token is
\* the last item of toZone, is not in the free list, has the card type and
\* the flip state asked for, and is in flow mode iff toZone is a flow zone.
\* For a coordinate zone onComplete has run with that token and no timer
\* was set; for a flow zone onComplete has not run and runs, with that
\* token, when the teleport-in timer set by the call fires.
C17_DrawnToken ==
    [][/\ last'.op = "drawCard" =>
            /\ items' = [items EXCEPT ![last'.to] = Append(@, last'.ret)]
            /\ last'.ret \in Created'
            /\ last'.ret \notin Range(pool')
            /\ tok'[last'.ret].type = last'.arg[1]
            /\ tok'[last'.ret].flipped = last'.arg[2]
            /\ tok'[last'.ret].flow = isFlowZone(last'.to)
            /\ IF isFlowZone(last'.to)
               THEN /\ last'.cb = None
                    /\ \E tm \in timers' \ timers :
                           /\ timers' = timers \cup {tm}
                           /\ tm.kind = "teleportIn" /\ tm.tok = last'.ret
                           /\ calls'[tm.slot].op = "drawCard"
               ELSE /\ last'.cbArg = last'.ret /\ last'.cbCount = 1
                    /\ timers' = timers
       /\ \A tm \in timers :
            (tm.kind = "teleportIn" /\ calls[tm.slot].op = "drawCard") =>
                IF tm \in timers'
                THEN calls'[tm.slot] = calls[tm.slot]
                ELSE last'.cbArg = tm.tok /\ last'.cbCount = 1]_vars

\* C17's case: a face-down card was drawn into the flow zone and the
\* teleport-in timer told onComplete, while the other token was free.
C17_Witness ==
    /\ last.op = "fire" /\ last.arg.kind = "teleportIn" /\ last.cbOp = "drawCard"
    /\ tok[last.cbArg].flipped /\ tok[last.cbArg].flow
    /\ \E z \in Zones : isFlowZone(z) /\ last.cbArg \in Range(items[z])
    /\ created = MaxTokens /\ Len(pool) >= 1

\* C18: when addWithTeleport(token, duration, onComplete) returns, the
\* token is the last item of the zone and the zone is laid out.  On a
\* coordinate zone onComplete has run and no timer was set; on a flow zone
\* the token has the teleport-in class, onComplete has not run, and it runs
\* when the teleport-in timer fires, after the class was removed.
C18_AddWithTeleport ==
    [][/\ last'.op = "addWithTeleport" =>
            /\ items' = [items EXCEPT ![last'.to] = Append(@, last'.tok)]
            /\ update(tok', items'[last'.to], last'.to) = tok'
            /\ IF isFlowZone(last'.to)
               THEN /\ last'.cb = None
                    /\ "teleport-in" \in tok'[last'.tok].cls
                    /\ \E tm \in timers' \ timers :
                           /\ timers' = timers \cup {tm}
                           /\ tm.kind = "teleportIn" /\ tm.tok = last'.tok
                           /\ calls'[tm.slot].op = "addWithTeleport"
                           /\ calls'[tm.slot].st = "pending"
               ELSE /\ last'.cbOp = "addWithTeleport" /\ last'.cbCount = 1
                    /\ timers' = timers
       /\ \A tm \in timers :
            (tm.kind = "teleportIn" /\ calls[tm.slot].op = "addWithTeleport") =>
                IF tm \in timers'
                THEN calls'[tm.slot] = calls[tm.slot]
                ELSE /\ last'.cb = tm.slot /\ last'.cbCount = 1
                     /\ "teleport-in" \notin last'.cbCls
                     /\ "teleport-in" \in tok[tm.tok].cls]_vars

\* C18's case: the teleport-in timer of an addWithTeleport on the flow zone
\* fired and told onComplete.
C18_Witness ==
    /\ last.op = "fire" /\ last.arg.kind = "teleportIn" /\ last.cbOp = "addWithTeleport"
    /\ last.cbCount = 1
    /\ \E z \in Zones : isFlowZone(z) /\ last.tok \in Range(items[z])

\* the strategy the specification names for each kind
StrategyNamed(kind) ==
    CASE kind = "row" -> "CenterRowStrategy"
      [] kind = "pile" -> "PileStrategy"
      [] kind = "grid" -> "GridStrategy"
      [] kind = "flow" -> "DomFlowStrategy"
      [] OTHER -> "undefined"

\* C19: createZone with a kind among row, pile, grid and flow returns a
\* zone that is registered and has the strategy of that kind, so that
\* render and isFlowZone on it succeed; only another kind gives a zone
\* without a strategy.
C19_KnownKinds ==
    last.op = "createZone" =>
        /\ last.zones[Len(last.zones)] = last.ret
        /\ last.ret.strategy = StrategyNamed(last.ret.kind)
        /\ last.ret.kind \in {"row", "pile", "grid", "flow"}
               => strategyCalls(last.ret) = "ok"

\* C20: the tokens ever created never become fewer; spawn and
\* spawnIntoContainer create a token, and return it, only when the free
\* list is empty; otherwise they create none and take exactly one token,
\* the one they return, out of the free list; despawn creates none and adds
\* exactly the given token to the free list.
C20_PoolAccounting ==
    [][/\ created' >= created
       /\ last'.op \in {"spawn", "spawnIntoFlow"} =>
             IF pool = <<>>
             THEN /\ created' = created + 1
                  /\ last'.ret = created'
                  /\ pool' = pool
             ELSE /\ created' = created
                  /\ last'.ret \in Range(pool)
                  /\ Len(pool') = Len(pool) - 1
                  /\ Range(pool') = Range(pool) \ {last'.ret}
       /\ last'.op = "despawn" =>
             /\ created' = created
             /\ pool' = Append(pool, last'.tok)]_vars

\* C20's case: with every token created and in the free list, a spawn took
\* one of them and left the other.
C20_Witness ==
    /\ last.op \in {"spawn", "spawnIntoFlow"}
    /\ created = MaxTokens /\ Len(pool) = MaxTokens - 1
    /\ last.ret \notin Range(pool)
    /\ tok[last.ret].display = "block"

\* C21: every token in the free list, the one despawn has just pushed
\* included, is out of flow mode, carries no teleport-out, teleport-in or
\* teleport-in-prepare class, and has the stage element as its parent.
C21_FreeTokensReset ==
    \A token \in Range(pool) :
        /\ ~tok[token].flow
        /\ tok[token].cls \cap TeleportClasses = {}
        /\ tok[token].parent = StageEl

\* The transform of a token's element is the one its fields give.
Rendered(t) == applyTransform(t).tf = t.tf

\* C22: every token that spawn or spawnIntoContainer has returned has the
\* transform its x, y, rotation, flip state and flow mode give, and still
\* has it after setFlipped, setFlowMode, moveTo, jumpTo, moveToAnchor and
\* jumpToAnchor, whatever their arguments.
C22_TransformFollowsFields ==
    \A token \in Created :
        /\ Rendered(tok[token])
        /\ \A flag \in BOOLEAN :
               Rendered(setFlipped(tok[token], flag)) /\ Rendered(setFlowMode(tok[token], flag))
        /\ \A x \in SomeOffsets, y \in SomeOffsets, rotation \in SomeAngles :
               Rendered(moveTo(tok[token], x, y, rotation)) /\ Rendered(jumpTo(tok[token], x, y))
        /\ \A targetEl \in Anchors, rotation \in SomeAngles :
               /\ Rendered(moveToAnchor(tok[token], targetEl, rotation))
               /\ Rendered(jumpToAnchor(tok[token], targetEl))

\* C22's case: a discard turned a card over and moved it to the deck, and
\* the element's transform shows both, while the other token is in flow
\* mode, face down.
C22_Witness ==
    /\ last.op = "discardCard" /\ ~tok[last.tok].flow /\ tok[last.tok].flipped
    /\ tok[last.tok].tf = <<"translate3d", tok[last.tok].x, tok[last.tok].y, 0, 180>>
    /\ tok[last.tok].x = getRelativePos(Deck, StageEl).x - cw \div 2
    /\ \E token \in Created : tok[token].flow /\ tok[token].tf = <<"rotateY", 180>>

\* C23: the pile layout gives index i the position anchor centre minus half
\* the card size and z-order i, and the token there, unless it is in flow
\* mode, takes them together with the angle; laying out as many items
\* again with the same maxAngle, other tokens at the indices and another
\* layout behind them, gives every index the same angle and position.
C23_PileDeterministic ==
    last.op \in {"pileUpdate", "pileAgain"} =>
        /\ Len(last.slots) = Len(last.its)
        /\ \A j \in 1..Len(last.its) :
               /\ last.slots[j].x = getRelativePos(last.zoneEl, StageEl).x - cw \div 2
               /\ last.slots[j].y = getRelativePos(last.zoneEl, StageEl).y - ch \div 2
               /\ last.slots[j].z = j - 1
               /\ last.its[j].z = j - 1
               /\ ~last.its[j].flow =>
                      Pose(last.its[j])
                          = <<last.slots[j].x, last.slots[j].y, last.slots[j].rot>>
        /\ last.op = "pileAgain" => last.slots = last.before

\* C23's case: a pile with a maxAngle other than 0 laid three tokens or
\* more out a second time, in the opposite order, and the first and the
\* last, which came from different places, got different angles.
C23_Witness ==
    /\ last.op = "pileAgain" /\ Len(last.its) >= 3 /\ last.maxAngle # 0
    /\ ~last.its[1].flow /\ ~last.its[Len(last.its)].flow
    /\ last.its[1].rot # last.its[Len(last.its)].rot
    /\ last.its[1].rot = last.before[1].rot

\* The operations C24 names, and the zone the last one was called on.
FlowMutations == {"add", "addWithTeleport", "removeToken", "removeIndices"}
Mutated(z) ==
    \/ last.op = "renderAll"
    \/ last.op \in FlowMutations /\ z \in {last.from, last.to}

\* C24: after add, addWithTeleport, removeToken and removeIndices on a flow
\* zone, and after renderAll, every item of the flow zone's list is in flow
\* mode at x = y = rotation = 0, its element is a child of the zone's
\* element, and its z-order is its index.
C24_FlowItemsInFlow ==
    \A z \in Zones :
        (isFlowZone(z) /\ Mutated(z)) =>
            \A j \in 1..Len(items[z]) :
                /\ tok[items[z][j]].flow
                /\ Pose(tok[items[z][j]]) = <<0, 0, 0>>
                /\ tok[items[z][j]].parent = z
                /\ tok[items[z][j]].z = j - 1

\* The token onComplete gets has the card type the call found on the
\* token it named, that token's flip state, toggled iff the call's flip
\* option was set, and is in flow mode iff z is a flow zone.
DeliveredAs(l, t, z) ==
    /\ t.type = l.cbWas.type
    /\ t.flipped = (l.cbWas.flipped # l.cbWas.flip)
    /\ t.flow = isFlowZone(z)

\* C25 as claimed: when onComplete of a teleporting transferCard runs, the
\* token it gets has the original's card type and flip state of the time
\* of the call, toggled iff flipOnTransfer, is the last item of toZone and
\* is in flow mode iff toZone is a flow zone.
C25_AsClaimed ==
    (last.op = "fire" /\ last.cbOp = "transferCard") =>
        /\ DeliveredAs(last, tok[last.cbArg], last.to)
        /\ items[last.to] # <<>>
        /\ items[last.to][Len(items[last.to])] = last.cbArg

\* C25, as amended: the token has that card type, flip state and flow
\* mode when onComplete runs; it was appended as the last item of toZone
\* when the teleport-out timer fired.  For a coordinate toZone onComplete
\* runs in that step and finds it last; for a flow toZone onComplete runs
\* when the teleport-in timer fires and finds it in toZone, before the
\* tokens appended since.
C25_DeliveredToken ==
    [][/\ (last'.op = "fire" /\ last'.arg.kind = "transferOut") =>
             /\ items' = [items EXCEPT ![last'.to] = Append(@, last'.ret)]
             /\ IF isFlowZone(last'.to)
                THEN last'.cb = None
                ELSE last'.cbOp = "transferCard" /\ last'.cbArg = last'.ret
       /\ (last'.op = "fire" /\ last'.cbOp = "transferCard") =>
             /\ DeliveredAs(last', tok'[last'.cbArg], last'.to)
             /\ last'.cbArg \in Range(items'[last'.to])
             /\ ~isFlowZone(last'.to) =>
                    items'[last'.to][Len(items'[last'.to])] = last'.cbArg]_vars

\* C25's case: onComplete of a flipping transfer into the flow zone got a
\* face-down card of type B, behind which another token had been appended
\* while it was teleporting in.
C25_Witness ==
    /\ last.op = "fire" /\ last.cbOp = "transferCard" /\ isFlowZone(last.to)
    /\ last.cbWas.flip /\ tok[last.cbArg].flipped /\ tok[last.cbArg].type = "B"
    /\ Len(items[last.to]) = 2
    /\ items[last.to][1] = last.cbArg /\ items[last.to][2] # last.cbArg

\* A teleporting transferCard call has just returned.
TeleportCalled == last'.op = "transferCard" /\ needsTeleport(last'.from, last'.to)

\* The call has taken the token out of fromZone, the token is in no zone
\* and not in the free list, the only timer set is the teleport-out one,
\* and onComplete has not run.
LeftAtCall ==
    /\ items'[last'.from] = Without(items[last'.from], last'.tok)
    /\ last'.tok \notin InZones' /\ last'.tok \notin Range(pool')
    /\ pool' = pool
    /\ last'.cb = None /\ last'.ret = None
    /\ \E tm \in timers' \ timers :
           /\ timers' = timers \cup {tm}
           /\ tm.kind = "transferOut" /\ tm.tok = last'.tok /\ tm.to = last'.to

\* While a teleport-out timer of a transfer is pending its token is in no
\* zone and not in the free list and onComplete has not run; the step in
\* which it fires leaves the free list as it was and appends the token the
\* pool returned to toZone, and onComplete runs in that step for a
\* coordinate toZone and not yet for a flow toZone, whose teleport-in timer
\* is pending then.
OutThenIn ==
    \A tm \in timers :
        tm.kind = "transferOut" =>
            IF tm \in timers'
            THEN /\ tm.tok \notin InZones' /\ tm.tok \notin Range(pool')
                 /\ calls'[tm.slot] = calls[tm.slot] /\ calls[tm.slot].n = 0
            ELSE /\ pool' = pool
                 /\ items' = [items EXCEPT ![tm.to] = Append(@, last'.ret)]
                 /\ IF isFlowZone(tm.to)
                    THEN /\ last'.cb = None /\ calls'[tm.slot] = calls[tm.slot]
                         /\ \E tn \in timers' :
                                tn.kind = "teleportIn" /\ tn.slot = tm.slot
                                    /\ tn.tok = last'.ret
                    ELSE /\ last'.cb = tm.slot /\ last'.cbArg = last'.ret
                         /\ last'.cbCount = 1

\* onComplete of a transfer that teleports runs in the step of a timer:
\* the teleport-in timer for a flow toZone, the teleport-out timer
\* otherwise; the token it gets is in toZone.
CompletedAfterAppend ==
    (last'.cbOp = "transferCard" /\ last'.op = "fire") =>
        /\ last'.arg.kind = IF isFlowZone(last'.to) THEN "teleportIn" ELSE "transferOut"
        /\ last'.cbArg \in Range(items'[last'.to])

\* C26 as claimed: the token leaves fromZone before a teleporting
\* transferCard returns, and the call leaves toZone's item list unchanged;
\* until the teleport-out timer fires the token is in no zone and not in
\* the free list; the timer's step despawns, respawns and appends to toZone
\* at once; onComplete runs only after the append, for a flow toZone only
\* after the teleport-in timer.
C26_AsClaimed ==
    [][/\ TeleportCalled => (LeftAtCall /\ items'[last'.to] = items[last'.to])
       /\ OutThenIn
       /\ CompletedAfterAppend]_vars

\* C26, as amended: the same, the call leaving the item list of toZone
\* unchanged when toZone is another zone than fromZone; a transfer from a
\* flow zone to itself has taken the token out of that list.
C26_TeleportOrder ==
    [][/\ TeleportCalled =>
             /\ LeftAtCall
             /\ last'.to # last'.from => items'[last'.to] = items[last'.to]
             /\ last'.to = last'.from =>
                    items'[last'.to] = Without(items[last'.to], last'.tok)
       /\ OutThenIn
       /\ CompletedAfterAppend]_vars

\* C26's case: the teleport-out timer of a transfer into the flow zone
\* fired while another token was free: the token given to transferCard
\* went through the free list and is the last item of the flow zone, the
\* free token is still free, and onComplete waits for the teleport-in timer.
C26_Witness ==
    /\ last.op = "fire" /\ last.arg.kind = "transferOut" /\ isFlowZone(last.to)
    /\ Len(pool) >= 1 /\ last.ret \notin Range(pool)
    /\ items[last.to][Len(items[last.to])] = last.ret
    /\ last.cb = None
    /\ \E tm \in timers : tm.kind = "teleportIn" /\ tm.tok = last.ret

\* C27, as amended: a teleporting transferCard creates no token: the call leaves the
\* tokens ever created and the free list as they are, and so does the
\* step of its teleport-out timer, which takes out of the free list the
\* token it has just put there, whatever was spawned and despawned while
\* the timer was pending.
C27_TransferCreatesNone ==
    [][/\ TeleportCalled => (created' = created /\ pool' = pool)
       /\ (last'.op = "fire" /\ last'.arg.kind = "transferOut") =>
             /\ created' = created
             /\ Len(pool') = Len(pool)
             /\ Range(pool') = Range(pool)
             /\ last'.ret = last'.tok]_vars

\* C27 as claimed: when the teleport-out callback of a transferCard has
\* run, as many tokens have been created and as many are free as before
\* transferCard was called, whatever was spawned and despawned while the
\* timer was pending.
C27_AsClaimed ==
    [][(last'.op = "fire" /\ last'.arg.kind = "transferOut") =>
           /\ created' = calls[last'.arg.slot].had.created
           /\ Len(pool') = calls[last'.arg.slot].had.free]_vars

\* C27's case: the teleport-out timer of a transfer out of the flow zone
\* fired after every token had been created and another one despawned.
C27_Witness ==
    /\ last.op = "fire" /\ last.arg.kind = "transferOut" /\ ~isFlowZone(last.to)
    /\ created = MaxTokens /\ Len(pool) = 1
    /\ last.ret = last.tok /\ last.tok \notin Range(pool)
    /\ last.cbOp = "transferCard"

\* How often the token t occurs in the list s.
Occurs(s, t) == Cardinality({j \in 1..Len(s) : s[j] = t})

\* In how many places the token t is, given the item lists, the free list
\* and the pending timers: its occurrences in the zones' lists and in the
\* free list, and one more when a timer that has taken it out of its zone
\* (teleport-out, discard) is pending on it.
RECURSIVE Listed(_, _, _)
Listed(its, t, z) == IF z = 0 THEN 0 ELSE Occurs(its[z], t) + Listed(its, t, z - 1)
Away(tms, t) == \E tm \in tms : tm.tok = t /\ tm.kind # "teleportIn"
Places(its, pl, tms, t) ==
    Listed(its, t, Len(ZoneKind)) + Occurs(pl, t) + (IF Away(tms, t) THEN 1 ELSE 0)

\* C28 as claimed: with drawCard, transferCard and discardCard called only
\* on members of the source zone that have no timer pending, and despawn
\* never called directly, every created token is at all times in exactly
\* one place: once in one zone's item list, once in the free list, or in
\* flight in a pending choreography.
C28_AsClaimed == \A t \in Created : Places(items, pool, timers, t) = 1

\* The step is a discardCard with despawnAfter false on t, or the firing of
\* the timer of one.
DiscardedToCaller(t) ==
    \/ last'.op = "discardCard" /\ last'.tok = t /\ ~last'.arg
    \/ /\ last'.op = "fire" /\ last'.tok = t
       /\ last'.arg.kind \in {"discardOut", "discardNotify"} /\ ~last'.arg.flag

\* C28, as amended: under the same callers every created token is in at
\* most one place, the free list never holds a token twice, and a token
\* is in none of these places only from a discardCard with despawnAfter
\* false on, left to the caller, where it stays.
C28_OnePlace ==
    [][\A t \in Created' :
           /\ Places(items', pool', timers', t) <= 1
           /\ Occurs(pool', t) <= 1
           /\ Places(items', pool', timers', t) = 0 =>
                  \/ t \in Created /\ Places(items, pool, timers, t) = 0
                  \/ DiscardedToCaller(t)]_vars

\* C28's case: the timer of a discard with despawnAfter false fired and
\* left the token to the caller, in no zone, not free and with no timer,
\* while the other token was in flight in a transfer.
C28_Witness ==
    /\ last.op = "fire" /\ last.arg.kind \in {"discardOut", "discardNotify"}
    /\ ~last.arg.flag /\ last.cbOp = "discardCard"
    /\ Places(items, pool, timers, last.tok) = 0
    /\ \E tm \in timers : tm.kind = "transferOut" /\ tm.tok # last.tok

\* C29: transferCard between two different coordinate zones on a token
\* that is not in fromZone leaves fromZone as it is, appends the token to
\* toZone, calls onComplete with it and returns it; discardCard on a token
\* that is not in fromZone leaves every item list and the free list as they
\* are and sets the timer it sets for a member, which with despawnAfter
\* pushes the token onto the free list when it fires.
C29_StrayToken ==
    [][/\ (/\ last'.op = "transferCard" /\ last'.from # last'.to
           /\ ~needsTeleport(last'.from, last'.to)
           /\ last'.tok \notin Range(items[last'.from])) =>
              /\ items' = [items EXCEPT ![last'.to] = Append(@, last'.tok)]
              /\ pool' = pool /\ timers' = timers
              /\ last'.cbArg = last'.tok /\ last'.cbCount = 1
              /\ last'.ret = last'.tok
       /\ (last'.op = "discardCard" /\ last'.tok \notin Range(items[last'.from])) =>
              /\ items' = items
              /\ pool' = pool
              /\ last'.cb = None
              /\ \E tm \in timers' \ timers :
                     /\ timers' = timers \cup {tm}
                     /\ tm.tok = last'.tok /\ tm.flag = last'.arg
                     /\ tm.kind = IF isFlowZone(last'.from) THEN "discardOut"
                                  ELSE IF last'.arg THEN "discardMove" ELSE "discardNotify"
       /\ (last'.op = "fire" /\ last'.arg.kind \in DiscardKinds /\ last'.arg.flag) =>
              pool' = Append(pool, last'.arg.tok)]_vars

\* C29's case: a free, hidden token was transferred out of a coordinate
\* zone that holds only the other token: that zone is as it was, and the
\* free token is the last item of the other coordinate zone and was given
\* to onComplete.
C29_Witness ==
    /\ last.op = "transferCard" /\ last.from # last.to
    /\ ~needsTeleport(last.from, last.to)
    /\ Len(items[last.from]) = 1 /\ items[last.from][1] # last.tok
    /\ items[last.to] = <<last.tok>>
    /\ last.tok \in Range(pool) /\ tok[last.tok].display = "none"
    /\ last.cbArg = last.tok /\ last.ret = last.tok

\* s is what is left of r when some of its items are taken out, the others
\* staying in their order.
RECURSIVE KeepsOrder(_, _)
KeepsOrder(s, r) ==
    IF s = <<>> THEN TRUE
    ELSE IF r = <<>> THEN FALSE
    ELSE IF Head(s) = Head(r) THEN KeepsOrder(Tail(s), Tail(r))
    ELSE KeepsOrder(s, Tail(r))

\* C30: add puts the token at the end of the item list; removeToken and
\* removeIndices leave the remaining items in their order; removeToken(t)
\* on a zone that holds t, followed by add(t) on another zone, leaves t
\* absent from the first and exactly once, as the last item, in the second;
\* clear returns the items in their order and leaves the zone empty.
C30_InsertionOrder ==
    \A z \in Zones :
        /\ \A t \in Created :
               /\ add(World, z, t).items[z] = Append(items[z], t)
               /\ KeepsOrder(removeToken(World, z, t).items[z], items[z])
        /\ \A indices \in IndexLists :
               KeepsOrder(removeIndices(World, z, indices).items[z], items[z])
        /\ clear(World, z).ret = items[z] /\ clear(World, z).items[z] = <<>>
        /\ \A t \in Range(items[z]), y \in Zones \ {z} :
               /\ t \notin Range(add(removeToken(World, z, t), y, t).items[z])
               /\ add(removeToken(World, z, t), y, t).items[y]
                      = Append(SelectSeq(items[y], LAMBDA u : u # t), t)

\* C1: when the onComplete of a transferCard that has a flow zone as
\* source or destination runs (it runs from a timer), the token it gets is
\* not the token given to transferCard, and that token is in the free list.
C1_NewIdentity ==
    (last.op = "fire" /\ last.cbOp = "transferCard") =>
        /\ last.cbArg # last.cbOrig
        /\ last.cbOrig \in Range(last.cbPool)

\* C5: every token in the free list is hidden and in no zone's item list,
\* and every token in a zone's item list is visible.
C5_FreeHiddenZoneVisible ==
    /\ \A token \in Range(pool) :
           tok[token].display = "none" /\ token \notin InZones
    /\ \A token \in InZones : tok[token].display # "none"

\* C6: the timer of a discardCard or of a teleporting transferCard, when
\* it fires on a token that the pool has handed out again since the timer
\* was set and that is a member of a zone, leaves the token and the lists
\* alone: the token is not hidden and not pushed onto the free list.
C6_NoStaleDespawn ==
    [][(/\ last'.op = "fire"
        /\ last'.arg.kind \in DiscardKinds \cup {"transferOut"}
        /\ last'.arg.reused
        /\ last'.tok \in InZones)
       => /\ pool' = pool
          /\ items' = items
          /\ tok'[last'.tok] = tok[last'.tok]]_vars

\* the choreography operations
Choreography == {"transferCard", "drawCard", "discardCard"}

\* C7: transferCard, drawCard and discardCard return with their timers
\* still pending and without having run any timer set before; if every
\* timer that is set fires, each call that was given an onComplete
\* eventually has run it, and no call ever runs it twice.
C7_CompletesOnce ==
    /\ [][last'.op \in Choreography => timers \subseteq timers']_vars
    /\ [](\A s \in Slots : calls[s].n <= 1)
    /\ \A s \in Slots :
           (calls[s].st = "pending" /\ calls[s].hasCb)
               ~> (calls[s].st = "done" /\ calls[s].n = 1)

\* C7's case: a transfer from the row zone into the flow zone has told
\* onComplete, two timers after the call.
C7_Witness ==
    /\ last.op = "fire" /\ last.arg.kind = "teleportIn" /\ last.cbOp = "transferCard"
    /\ last.cbCount = 1
    /\ calls[last.cb].st = "done" /\ calls[last.cb].n = 1

=============================================================================
